---- MODULE Spec2Model ----
(***************************************************************************)
(* Model of the whale tracker: the Amp query client (AmpClient.query), the  *)
(* two SQL templates (get_whale_transfers, get_whale_stats), the dashboard  *)
(* script (main of whale_tracker.py) and the connection test of demo.py.    *)
(***************************************************************************)
EXTENDS Integers, Sequences, FiniteSets, TLC

\* Longest response body, in lines, the endpoint sends in the model.
MaxLines == 2

(***************************************************************************)
(* Wei amounts.  TLC's integers are 32 bits wide and a threshold is about   *)
(* 2^65, so an amount is kept as [tok, off]: tok * 10^18 + off wei, with    *)
(* |off| far below 10^18.  tok * 10^18 is a multiple of 2^18, so it is a    *)
(* double, and no power of two lies within 2^18 of it: the amounts of the   *)
(* model around tok * 10^18 all lie in one binade.                          *)
(***************************************************************************)
Wei(t, o) == [tok |-> t, off |-> o]

WeiGE(a, b) == a.tok > b.tok \/ (a.tok = b.tok /\ a.off >= b.off)

\* BinadeFloor[i] is the least tok with tok * 10^18 >= 2^(62 + i), that is
\* ceil(2^(62 + i) / 10^18).
BinadeFloor == <<10, 19, 37, 74, 148, 296, 591>>

\* The exponent e of the double nearest tok * 10^18: 2^e <= tok * 10^18 < 2^(e+1).
Binade(tok) ==
    62 + (CHOOSE i \in 1..6 : BinadeFloor[i] <= tok /\ tok < BinadeFloor[i + 1])

\* The spacing of the doubles around tok * 10^18 (53 significant bits).
Ulp(tok) == 2 ^ (Binade(tok) - 52)

\* x / u rounded to the nearest integer, ties to the even one (IEEE 754).
RoundHalfEven(x, u) ==
    LET q == x \div u
        r == x % u
    IN  IF 2 * r < u THEN q
        ELSE IF 2 * r > u THEN q + 1
        ELSE IF q % 2 = 0 THEN q ELSE q + 1

\* CAST(value AS DOUBLE): the double nearest the raw value.  The mantissa of
\* tok * 10^18 is even, so the parity of a tie is that of the offset's multiple.
CastDouble(v) == Wei(v.tok, Ulp(v.tok) * RoundHalfEven(v.off, Ulp(v.tok)))

\* The exponent of the double tok: 2^f <= tok < 2^(f+1).
Log2Floor(tok) == CHOOSE f \in 0..9 : 2 ^ f <= tok /\ tok < 2 ^ (f + 1)

\* CAST(value AS DOUBLE) / 1e18: the displayed amount, the double nearest the
\* quotient, kept as tok + ulps * 2^(Log2Floor(tok) - 52).  One spacing of the
\* raw double is 2^(Binade - Log2Floor) / 10^18 spacings of the quotient, which
\* is 2^60 / 10^18 or 2^59 / 10^18 (here in millionths).  toks of the model are
\* multiples of ten, never a power of two, so tok and the quotient share a binade.
EthAmount(v) ==
    LET c == CastDouble(v)
        m == c.off \div Ulp(c.tok)
        ratio == IF Binade(c.tok) - Log2Floor(c.tok) = 60 THEN 1152922 ELSE 576461
    IN  [tok |-> c.tok, ulps |-> RoundHalfEven(m * ratio, 1000000)]

\* displayed amount >= t whole tokens
AmountGE(a, t) == a.tok > t \/ (a.tok = t /\ a.ulps >= 0)

(***************************************************************************)
(* The sidebar's slider and the SQL templates.                              *)
(***************************************************************************)
SliderMin == 10
SliderMax == 500
SliderStep == 10
DefaultMinEth == 50

SliderValues == {m \in SliderMin..SliderMax : (m - SliderMin) % SliderStep = 0}

\* The slider positions the model's user selects.
MinEthChoices == {m \in SliderValues : m = DefaultMinEth \/ m = 2 * DefaultMinEth}

\* min_eth * 1e18 in the f-string: a float product, rounded to a double; its
\* shortest repr ("5e+19") reads back as the same double.
Threshold(min_eth) == CastDouble(Wei(min_eth, 0))

\* get_whale_transfers with ">" written for ">=".
whale_transfers_sql_strict(min_eth) ==
    [template |-> "whale_transfers", op |-> ">", threshold |-> Threshold(min_eth),
     limit |-> 500]

\* The SQL text get_whale_transfers builds, by its clauses.
whale_transfers_sql(min_eth) ==
    [template |-> "whale_transfers", op |-> ">=", threshold |-> Threshold(min_eth),
     limit |-> 500]

\* The SQL text get_whale_stats builds: its threshold is the literal
\* 50000000000000000000, whatever the slider says.
whale_stats_sql ==
    [template |-> "whale_stats", op |-> ">=", threshold |-> Wei(50, 0),
     limit |-> 15]

(***************************************************************************)
(* The endpoint: the transactions table and the evaluation of a query.      *)
(***************************************************************************)
NULL == "NULL"

\* Transactions around the thresholds: just under half a spacing below 50 ETH,
\* half a spacing below, one wei below, exactly 50 ETH, exactly 100 ETH, and a
\* contract creation (no "to").
ChainRows ==
    { [tx_hash |-> "0x00", from |-> "0xA", to |-> "0xB",
       value |-> Wei(DefaultMinEth, 0 - (Ulp(DefaultMinEth) \div 2) - 1)],
      [tx_hash |-> "0x01", from |-> "0xA", to |-> "0xB",
       value |-> Wei(DefaultMinEth, 0 - (Ulp(DefaultMinEth) \div 2))],
      [tx_hash |-> "0x02", from |-> "0xA", to |-> "0xB",
       value |-> Wei(DefaultMinEth, 0 - 1)],
      [tx_hash |-> "0x03", from |-> "0xA", to |-> "0xB",
       value |-> Wei(DefaultMinEth, 0)],
      [tx_hash |-> "0x04", from |-> "0xA", to |-> "0xB",
       value |-> Wei(2 * DefaultMinEth, 0)],
      [tx_hash |-> "0x05", from |-> "0xA", to |-> NULL,
       value |-> Wei(2 * DefaultMinEth, 0)] }

\* WHERE CAST(value AS DOUBLE) >= <threshold> AND "to" IS NOT NULL
Where(sql, r) ==
    /\ IF sql.op = ">="
       THEN WeiGE(CastDouble(r.value), sql.threshold)
       ELSE ~WeiGE(sql.threshold, CastDouble(r.value))
    /\ r.to # NULL

\* The SELECT list of each template, for one transaction (whale_stats: for a
\* sender's group of that one transaction).
SelectRow(sql, r) ==
    IF sql.template = "whale_transfers"
    THEN [timestamp |-> "2024-01-01T00:00:00", block_num |-> 1,
          transaction_hash |-> r.tx_hash, from_address |-> r.from,
          to_address |-> r.to, eth_amount |-> EthAmount(r.value)]
    ELSE [from_address |-> r.from, transfer_count |-> 1,
          total_eth |-> EthAmount(r.value),
          largest_transfer |-> EthAmount(r.value)]

(***************************************************************************)
(* Response bodies, by lines.  A line is blank (empty or white space),      *)
(* malformed, or the JSON text of an object.                                *)
(***************************************************************************)
BlankLine == [kind |-> "blank", obj |-> <<>>]
BadLine == [kind |-> "bad", obj |-> <<>>]
ObjLine(o) == [kind |-> "obj", obj |-> o]

\* A well-formed object that lacks the columns of the query.
PartialObject == [from_address |-> "0xA"]

\* The lines the endpoint may send for a query: any row the query selects, in
\* any order, and any noise.
Lines(sql) ==
    {BlankLine, BadLine, ObjLine(PartialObject)}
        \cup {ObjLine(SelectRow(sql, r)) : r \in {x \in ChainRows : Where(sql, x)}}

Bodies(sql) == UNION {[1..n -> Lines(sql)] : n \in 0..MaxLines}

\* 300 stands for the statuses outside 2xx, 4xx and 5xx that requests hands back
\* as they are (a 3xx without a Location header).
StatusCodes == {200, 300, 404, 500}

\* What requests.post comes to: an exception, or a response.
NetOutcomes(sql) ==
    {[kind |-> k, status |-> 0, body |-> <<>>] :
        k \in {"ConnectionError", "ConnectTimeout", "ReadTimeout"}}
        \cup {[kind |-> "response", status |-> s, body |-> b] :
                s \in StatusCodes, b \in Bodies(sql)}

(***************************************************************************)
(* AmpClient.query.                                                         *)
(***************************************************************************)
\* The classes an exception is an instance of (requests.exceptions, json).
Bases(exc) ==
    CASE exc = "ConnectionError" ->
            {"ConnectionError", "RequestException", "OSError", "Exception"}
      [] exc = "ConnectTimeout" ->
            {"ConnectTimeout", "ConnectionError", "Timeout", "RequestException",
             "OSError", "Exception"}
      [] exc = "ReadTimeout" ->
            {"ReadTimeout", "Timeout", "RequestException", "OSError", "Exception"}
      [] exc = "HTTPError" ->
            {"HTTPError", "RequestException", "OSError", "Exception"}
      [] exc = "JSONDecodeError" ->
            {"JSONDecodeError", "ValueError", "Exception"}
      [] OTHER -> {exc}

IsInstance(exc, cls) == cls \in Bases(exc)

\* response.raise_for_status(): HTTPError for a 4xx or a 5xx status, and for no other.
raise_for_status(status) == 400 <= status /\ status < 600

\* line.strip() is empty
IsBlank(line) == line.kind = "blank"

RECURSIVE StripLeft(_)
StripLeft(lines) ==
    IF lines = <<>> \/ ~IsBlank(Head(lines)) THEN lines ELSE StripLeft(Tail(lines))

RECURSIVE StripRight(_)
StripRight(lines) ==
    IF lines = <<>> \/ ~IsBlank(lines[Len(lines)]) THEN lines
    ELSE StripRight(SubSeq(lines, 1, Len(lines) - 1))

\* response.text.strip().split('\n'): the text without the white space at its
\* two ends, cut at the line breaks; the empty text splits into one empty line.
StripSplit(body) ==
    LET t == StripRight(StripLeft(body))
    IN  IF t = <<>> THEN <<BlankLine>> ELSE t

\* The comprehension without its "if line.strip()".
NonBlankKeepAll(lines) == lines

\* [line for line in lines if line.strip()]
RECURSIVE NonBlank(_)
NonBlank(lines) ==
    IF lines = <<>> THEN <<>>
    ELSE IF IsBlank(Head(lines)) THEN NonBlank(Tail(lines))
    ELSE <<Head(lines)>> \o NonBlank(Tail(lines))

\* The comprehension with a line that is not JSON skipped.
RECURSIVE LoadAllSkipBad(_)
LoadAllSkipBad(lines) ==
    IF lines = <<>> THEN [exc |-> "none", data |-> <<>>]
    ELSE IF Head(lines).kind # "obj" THEN LoadAllSkipBad(Tail(lines))
    ELSE [exc |-> "none",
          data |-> <<Head(lines).obj>> \o LoadAllSkipBad(Tail(lines)).data]

\* json.loads over the non-blank lines, in order: the list of the objects, or
\* JSONDecodeError at the first line that is not JSON (the empty text is not).
RECURSIVE LoadAll(_)
LoadAll(lines) ==
    IF lines = <<>> THEN [exc |-> "none", data |-> <<>>]
    ELSE IF Head(lines).kind # "obj" THEN [exc |-> "JSONDecodeError", data |-> <<>>]
    ELSE LET rest == LoadAll(Tail(lines))
         IN  IF rest.exc # "none" THEN rest
             ELSE [exc |-> "none", data |-> <<Head(lines).obj>> \o rest.data]

\* pd.DataFrame(): no columns, no rows.
EmptyFrame == [columns |-> {}, data |-> <<>>]

\* A frame whose columns are the first dict's keys only.
DataFrameFirstKeys(data) == [columns |-> DOMAIN data[1], data |-> data]

\* pd.DataFrame(data) of a list of dicts: the columns are the union of the
\* dicts' keys, one row per dict; a row holds NaN in a column its dict lacks.
DataFrame(data) ==
    [columns |-> UNION {DOMAIN data[i] : i \in 1..Len(data)}, data |-> data]

NaN == "NaN"

\* len(df), the keys of row i (df.iloc[i].keys()) and its cell in column c
NRows(frame) == Len(frame.data)
RowKeys(frame, i) == frame.columns
Cell(frame, i, c) == IF c \in DOMAIN frame.data[i] THEN frame.data[i][c] ELSE NaN

\* df.empty: an axis of length 0
IsEmpty(frame) == NRows(frame) = 0 \/ frame.columns = {}

\* The try block of query: the exception it ends with, or the frame it returns.
TryBody(net) ==
    IF net.kind # "response" THEN [exc |-> net.kind, value |-> EmptyFrame]
    ELSE IF raise_for_status(net.status) THEN [exc |-> "HTTPError", value |-> EmptyFrame]
    ELSE LET loaded == LoadAll(NonBlank(StripSplit(net.body)))
         IN  IF loaded.exc # "none" THEN [exc |-> loaded.exc, value |-> EmptyFrame]
             ELSE IF loaded.data = <<>> THEN [exc |-> "none", value |-> EmptyFrame]
             ELSE [exc |-> "none", value |-> DataFrame(loaded.data)]

FailedToConnect == "Failed to connect to Amp server"
QueryError == "Query error"

\* st.error(f"<msg>: {e}")
Diag(m, e) == [msg |-> m, exc |-> e]

\* query with only its "except requests.exceptions.RequestException" clause.
query_no_generic_handler(sql, net) ==
    LET t == TryBody(net)
    IN  IF t.exc = "none"
        THEN [df |-> t.value, errors |-> <<>>, raised |-> "none", exc |-> "none"]
        ELSE IF IsInstance(t.exc, "RequestException")
        THEN [df |-> EmptyFrame, errors |-> <<Diag(FailedToConnect, t.exc)>>,
              raised |-> "none", exc |-> t.exc]
        ELSE [df |-> EmptyFrame, errors |-> <<>>, raised |-> t.exc, exc |-> t.exc]

\* query with "except Exception" written first: it catches every exception.
query_generic_handler_first(sql, net) ==
    LET t == TryBody(net)
    IN  IF t.exc = "none"
        THEN [df |-> t.value, errors |-> <<>>, raised |-> "none", exc |-> "none"]
        ELSE IF IsInstance(t.exc, "Exception")
        THEN [df |-> EmptyFrame, errors |-> <<Diag(QueryError, t.exc)>>,
              raised |-> "none", exc |-> t.exc]
        ELSE [df |-> EmptyFrame, errors |-> <<>>, raised |-> t.exc, exc |-> t.exc]

\* query(sql): the frame returned, the st.error calls made, and the exception
\* that leaves the call ("none": the call returns).
query(sql, net) ==
    LET t == TryBody(net)
    IN  IF t.exc = "none"
        THEN [df |-> t.value, errors |-> <<>>, raised |-> "none", exc |-> "none"]
        ELSE IF IsInstance(t.exc, "RequestException")
        THEN [df |-> EmptyFrame, errors |-> <<Diag(FailedToConnect, t.exc)>>,
              raised |-> "none", exc |-> t.exc]
        ELSE IF IsInstance(t.exc, "Exception")
        THEN [df |-> EmptyFrame, errors |-> <<Diag(QueryError, t.exc)>>,
              raised |-> "none", exc |-> t.exc]
        ELSE [df |-> EmptyFrame, errors |-> <<>>, raised |-> t.exc, exc |-> t.exc]

(***************************************************************************)
(* The demo script, demo.py: three checks of the endpoint, each one POST.   *)
(***************************************************************************)
test_query == [template |-> "select_1"]
sample_data_sql == [template |-> "sample_data", limit |-> 10]
whale_check_sql ==
    [template |-> "whale_check", op |-> ">=", threshold |-> Wei(50, 0)]

\* JSON null in a column of amounts.
NullAmount == [tok |-> 0 - 1, ulps |-> 0]

\* The row of check_whale_data's aggregate over the selected transactions in
\* rows: none, or one.
WhaleCheckRow(rows) ==
    IF rows = {}
    THEN [whale_count |-> 0, largest_transfer |-> NullAmount,
          avg_transfer |-> NullAmount]
    ELSE LET r == CHOOSE x \in rows : TRUE
         IN  [whale_count |-> Cardinality(rows),
              largest_transfer |-> EthAmount(r.value),
              avg_transfer |-> EthAmount(r.value)]

\* The lines the endpoint may send for a query of the demo.
DemoLines(sql) ==
    {BlankLine, BadLine, ObjLine(PartialObject)} \cup
    CASE sql.template = "select_1" -> {ObjLine([test |-> 1])}
      [] sql.template = "sample_data" ->
            {ObjLine(SelectRow(whale_transfers_sql(DefaultMinEth), r)) :
                r \in {x \in ChainRows : x.to # NULL}}
      [] OTHER ->
            {ObjLine(WhaleCheckRow(rows)) :
                rows \in {{}} \cup {{r} : r \in {x \in ChainRows : Where(sql, x)}}}

DemoOutcomes(sql) ==
    {[kind |-> k, status |-> 0, body |-> <<>>] :
        k \in {"ConnectionError", "ConnectTimeout", "ReadTimeout"}}
        \cup {[kind |-> "response", status |-> s, body |-> b] :
                s \in StatusCodes,
                b \in UNION {[1..n -> DemoLines(sql)] : n \in 0..MaxLines}}

Responsive == "Amp server is running and responsive!"
CannotConnect == "Cannot connect to Amp server. Is it running?"
AmpServerError == "Amp server error"

\* except requests.exceptions.ConnectionError / except Exception of
\* test_amp_connection: what is printed for an exception.
ConnectionDiagnostic(exc) ==
    IF IsInstance(exc, "ConnectionError")
    THEN <<CannotConnect, "Expected URL">>
    ELSE <<AmpServerError>>

\* test_amp_connection(amp_url): what it returns and what it prints.
test_amp_connection(net) ==
    LET exc == IF net.kind # "response" THEN net.kind
               ELSE IF raise_for_status(net.status) THEN "HTTPError"
               ELSE "none"
    IN  IF exc = "none"
        THEN [ok |-> TRUE, out |-> <<Responsive>>, exc |-> exc]
        ELSE [ok |-> FALSE, out |-> ConnectionDiagnostic(exc), exc |-> exc]

SampleColumns == {"block_num", "eth_amount", "from_address"}

\* get_sample_data(amp_url): a frame or None, and what it prints.
get_sample_data(net) ==
    LET t == TryBody(net)
        hints == <<"Error querying transaction data", "hints">>
    IN  IF t.exc # "none" THEN [ok |-> FALSE, out |-> hints, exc |-> t.exc]
        ELSE IF NRows(t.value) = 0
        THEN [ok |-> FALSE, out |-> <<"No transaction data found">>, exc |-> "none"]
        ELSE IF ~(SampleColumns \subseteq t.value.columns)
        THEN [ok |-> FALSE, out |-> <<"Found recent transactions">> \o hints,
              exc |-> "KeyError"]
        ELSE [ok |-> TRUE, out |-> <<"Found recent transactions", "Sample data">>,
              exc |-> "none"]

\* check_whale_data(amp_url): what it returns and what it prints.
check_whale_data(net) ==
    LET loaded == IF net.kind # "response" THEN [exc |-> net.kind, data |-> <<>>]
                  ELSE IF raise_for_status(net.status)
                  THEN [exc |-> "HTTPError", data |-> <<>>]
                  ELSE LoadAll(NonBlank(StripSplit(net.body)))
    IN  IF loaded.exc # "none"
        THEN [ok |-> FALSE, out |-> <<"Error checking whale data">>, exc |-> loaded.exc]
        ELSE IF loaded.data = <<>>
        THEN [ok |-> FALSE, out |-> <<"No whale transfers found">>, exc |-> "none"]
        ELSE IF "whale_count" \notin DOMAIN loaded.data[1]
        THEN [ok |-> FALSE, out |-> <<"Error checking whale data">>, exc |-> "KeyError"]
        ELSE IF loaded.data[1].whale_count > 0
        THEN [ok |-> TRUE, out |-> <<"Found whale transfers">>, exc |-> "none"]
        ELSE [ok |-> FALSE, out |-> <<"No whale transfers found">>, exc |-> "none"]

\* The script before main runs.
DemoStart == [pc |-> "test", out |-> <<>>, posts |-> <<>>, net |-> <<>>, exc |-> "none"]

(***************************************************************************)
(* The dashboard script, main of whale_tracker.py, under Streamlit: the     *)
(* script runs from its top on every trigger and st.rerun() restarts it.    *)
(***************************************************************************)
VARIABLES
    pc,               \* where the script run stands
    min_eth,          \* the slider
    auto_refresh,     \* the checkbox
    refresh_clicked,  \* st.button returns True in the run its click triggers
    df,               \* the frame get_whale_transfers returned in this run
    df_stats,         \* the frame get_whale_stats returned in this run
    errors,           \* the st.error messages of this run, in order
    view,             \* what the run ended with
    sent,             \* the SQL texts POSTed in this run, in order
    inflight,         \* the requests POSTed and not yet answered
    calls,            \* per finished query call of this run: how its try block ended
    last,             \* the latest finished query call: SQL, outcome, result
    client,           \* the AmpClient of this run, once constructed
    demo              \* the demo script (demo.py): position, output, POSTs, last call

vars == <<pc, min_eth, auto_refresh, refresh_clicked, df, df_stats, errors, view,
          sent, inflight, calls, last, client, demo>>

NoCall == [called |-> FALSE]

\* A URL text: what precedes its trailing slashes, and how many of them.
amp_url == [host |-> "http://localhost:1603", slashes |-> 0]

rstrip(url) == [url EXCEPT !.slashes = 0]

\* AmpClient.__init__
AmpClient(base_url) == [base_url |-> rstrip(base_url)]

NoWhaleTransfers == "No whale transfers found. Check Amp server connection."

Init ==
    /\ pc = "sidebar"
    /\ min_eth = DefaultMinEth
    /\ auto_refresh = FALSE
    /\ refresh_clicked = FALSE
    /\ df = EmptyFrame
    /\ df_stats = EmptyFrame
    /\ errors = <<>>
    /\ view = "none"
    /\ sent = <<>>
    /\ inflight = <<>>
    /\ calls = <<>>
    /\ last = NoCall
    /\ client = <<>>
    /\ demo = DemoStart

\* A new run of the script: its locals and its page start afresh.
Rerun ==
    /\ pc' = "sidebar"
    /\ df' = EmptyFrame
    /\ df_stats' = EmptyFrame
    /\ errors' = <<>>
    /\ view' = "none"
    /\ sent' = <<>>
    /\ calls' = <<>>
    /\ last' = NoCall
    /\ client' = <<>>
    /\ UNCHANGED <<inflight, demo>>

\* The user, while the script is idle or asleep in time.sleep: moves the
\* slider, ...
MoveSlider ==
    /\ pc \in {"done", "sleep"}
    /\ \E m \in MinEthChoices \ {min_eth} : min_eth' = m
    /\ Rerun
    /\ UNCHANGED <<auto_refresh, refresh_clicked>>

\* ... ticks or clears the checkbox, ...
ToggleAutoRefresh ==
    /\ pc \in {"done", "sleep"}
    /\ auto_refresh' = ~auto_refresh
    /\ Rerun
    /\ UNCHANGED <<min_eth, refresh_clicked>>

\* ... or clicks "Refresh Now".
ClickRefresh ==
    /\ pc \in {"done", "sleep"}
    /\ refresh_clicked' = TRUE
    /\ Rerun
    /\ UNCHANGED <<min_eth, auto_refresh>>

\* if st.button(...): st.rerun()
RefreshNow ==
    /\ pc = "sidebar"
    /\ refresh_clicked
    /\ refresh_clicked' = FALSE
    /\ Rerun
    /\ UNCHANGED <<min_eth, auto_refresh>>

\* client = AmpClient(amp_url); if auto_refresh: time.sleep(30) ...
AutoRefreshSleep ==
    /\ pc = "sidebar"
    /\ ~refresh_clicked
    /\ auto_refresh
    /\ pc' = "sleep"
    /\ client' = <<AmpClient(amp_url)>>
    /\ UNCHANGED <<demo, min_eth, auto_refresh, refresh_clicked, df, df_stats, errors,
                   view, sent, inflight, calls, last>>

\* ... st.rerun()
AutoRefreshRerun ==
    /\ pc = "sleep"
    /\ Rerun
    /\ UNCHANGED <<min_eth, auto_refresh, refresh_clicked>>

\* client = AmpClient(amp_url); neither: the run goes on to fetch.
EnterFetch ==
    /\ pc = "sidebar"
    /\ ~refresh_clicked
    /\ ~auto_refresh
    /\ pc' = "transfers"
    /\ client' = <<AmpClient(amp_url)>>
    /\ UNCHANGED <<demo, min_eth, auto_refresh, refresh_clicked, df, df_stats, errors,
                   view, sent, inflight, calls, last>>

\* requests.post(self.base_url, data=sql, ...) goes out.
Post(sql, next) ==
    /\ sent' = Append(sent, sql)
    /\ inflight' = Append(inflight, sql)
    /\ pc' = next
    /\ UNCHANGED <<demo, client, min_eth, auto_refresh, refresh_clicked, df, df_stats, errors,
                   view, calls, last>>

\* A query that sends its request again when the attempt failed.
Finish_retry(res, net, next) ==
    IF res.exc # "none"
    THEN /\ sent' = Append(sent, Head(inflight))
         /\ inflight' = Append(Tail(inflight), Head(inflight))
         /\ pc' = pc
         /\ UNCHANGED <<demo, client, min_eth, auto_refresh, refresh_clicked, view, errors,
                        calls, last>>
    ELSE /\ inflight' = Tail(inflight)
         /\ errors' = errors \o res.errors
         /\ calls' = Append(calls, [template |-> Head(inflight).template, exc |-> res.exc])
         /\ last' = [called |-> TRUE, sql |-> Head(inflight), net |-> net, res |-> res]
         /\ pc' = next
         /\ UNCHANGED <<demo, client, min_eth, auto_refresh, refresh_clicked, view, sent>>

\* The outcome of the POST arrives and query runs to its end.
Finish(res, net, next) ==
    /\ inflight' = Tail(inflight)
    /\ errors' = errors \o res.errors
    /\ calls' = Append(calls, [template |-> Head(inflight).template, exc |-> res.exc])
    /\ last' = [called |-> TRUE, sql |-> Head(inflight), net |-> net, res |-> res]
    /\ pc' = IF res.raised = "none" THEN next ELSE "crashed"
    /\ UNCHANGED <<demo, client, min_eth, auto_refresh, refresh_clicked, view, sent>>

\* Both queries of a run sent at once, neither waiting for the other.
get_whale_transfers_post_both ==
    /\ pc = "transfers"
    /\ sent' = sent \o <<whale_transfers_sql(min_eth), whale_stats_sql>>
    /\ inflight' = inflight \o <<whale_transfers_sql(min_eth), whale_stats_sql>>
    /\ pc' = "transfers_wait"
    /\ UNCHANGED <<demo, client, min_eth, auto_refresh, refresh_clicked, df, df_stats, errors,
                   view, calls, last>>

\* df = get_whale_transfers(client, min_eth)
get_whale_transfers_post ==
    /\ pc = "transfers"
    /\ Post(whale_transfers_sql(min_eth), "transfers_wait")

get_whale_transfers_return ==
    /\ pc = "transfers_wait"
    /\ \E net \in NetOutcomes(Head(inflight)) :
        LET res == query(Head(inflight), net)
        IN  /\ Finish(res, net, "stats")
            /\ df' = res.df
            /\ UNCHANGED df_stats

\* A client that hands back the frame of its previous call when the request
\* of this one fails.
get_whale_stats_return_cached ==
    /\ pc = "stats_wait"
    /\ \E net \in NetOutcomes(Head(inflight)) :
        LET res == query(Head(inflight), net)
        IN  /\ Finish(res, net, "check")
            /\ df_stats' = IF res.exc # "none" THEN last.res.df ELSE res.df
            /\ UNCHANGED df

\* df_stats = get_whale_stats(client)
get_whale_stats_post ==
    /\ pc = "stats"
    /\ Post(whale_stats_sql, "stats_wait")

get_whale_stats_return ==
    /\ pc = "stats_wait"
    /\ \E net \in NetOutcomes(Head(inflight)) :
        LET res == query(Head(inflight), net)
        IN  /\ Finish(res, net, "check")
            /\ df_stats' = res.df
            /\ UNCHANGED df

\* if df.empty: st.error("No whale transfers found. ..."); return
NoData ==
    /\ pc = "check"
    /\ IsEmpty(df)
    /\ errors' = Append(errors, Diag(NoWhaleTransfers, "none"))
    /\ view' = "no_data"
    /\ pc' = "done"
    /\ UNCHANGED <<demo, client, min_eth, auto_refresh, refresh_clicked, df, df_stats, sent,
                   inflight, calls, last>>

\* Otherwise the metrics, the charts and the tables are rendered.
Render ==
    /\ pc = "check"
    /\ ~IsEmpty(df)
    /\ view' = "dashboard"
    /\ pc' = "done"
    /\ UNCHANGED <<demo, client, min_eth, auto_refresh, refresh_clicked, df, df_stats, errors,
                   sent, inflight, calls, last, demo>>

DashVars == <<pc, min_eth, auto_refresh, refresh_clicked, df, df_stats, errors, view,
              sent, inflight, calls, last, client>>

\* One call of the demo: its POST, what it printed, and where main goes next.
DemoCall(sql, net, res, next) ==
    /\ demo' = [pc |-> next, out |-> demo.out \o res.out,
                posts |-> Append(demo.posts, sql.template), net |-> net,
                exc |-> res.exc]
    /\ UNCHANGED DashVars

\* if not test_amp_connection(amp_url): ... return
demo_test_connection ==
    /\ demo.pc = "test"
    /\ \E net \in DemoOutcomes(test_query) :
        LET res == test_amp_connection(net)
        IN  DemoCall(test_query, net,
                     [res EXCEPT !.out = IF res.ok THEN @ ELSE @ \o <<"To start Amp server">>],
                     IF res.ok THEN "sample" ELSE "returned")

\* A main that goes on to the whale check whatever get_sample_data returned.
demo_sample_data_ungated ==
    /\ demo.pc = "sample"
    /\ \E net \in DemoOutcomes(sample_data_sql) :
        LET res == get_sample_data(net)
        IN  DemoCall(sample_data_sql, net, res, "whale")

\* df = get_sample_data(amp_url); if df is None: ... return
demo_sample_data ==
    /\ demo.pc = "sample"
    /\ \E net \in DemoOutcomes(sample_data_sql) :
        LET res == get_sample_data(net)
        IN  DemoCall(sample_data_sql, net,
                     [res EXCEPT !.out = IF res.ok THEN @ ELSE @ \o <<"If no data is found">>],
                     IF res.ok THEN "whale" ELSE "returned")

\* check_whale_data(amp_url); print("Demo complete! ...")
demo_whale_check ==
    /\ demo.pc = "whale"
    /\ \E net \in DemoOutcomes(whale_check_sql) :
        LET res == check_whale_data(net)
        IN  DemoCall(whale_check_sql, net,
                     [res EXCEPT !.out = @ \o <<"Demo complete">>], "complete")

\* The script is run again.
demo_run_again ==
    /\ demo.pc \in {"returned", "complete"}
    /\ demo' = DemoStart
    /\ UNCHANGED DashVars

DemoNext ==
    \/ demo_test_connection
    \/ demo_sample_data
    \/ demo_whale_check
    \/ demo_run_again

SpecDemo == Init /\ [][DemoNext]_vars

Next ==
    \/ MoveSlider
    \/ ToggleAutoRefresh
    \/ ClickRefresh
    \/ RefreshNow
    \/ AutoRefreshSleep
    \/ AutoRefreshRerun
    \/ EnterFetch
    \/ get_whale_transfers_post
    \/ get_whale_transfers_return
    \/ get_whale_stats_post
    \/ get_whale_stats_return
    \/ NoData
    \/ Render

Spec == Init /\ [][Next]_vars

\* What the script does by itself between the top of a run and the fetch:
\* local computation and one time.sleep(30), each of which ends.  What the
\* user does, and what the network does, is left out.
SidebarStep ==
    \/ RefreshNow
    \/ AutoRefreshSleep
    \/ AutoRefreshRerun
    \/ EnterFetch

SpecLive == Init /\ [][Next]_vars /\ WF_vars(SidebarStep)

(***************************************************************************)
(* What a response is, read off the POST's outcome alone.                   *)
(***************************************************************************)
Unreachable == {"ConnectionError", "ConnectTimeout", "ReadTimeout"}

\* HTTP 2xx
Success(net) == net.kind = "response" /\ net.status \in 200..299

HttpError(net) == net.kind = "response" /\ net.status \in 400..599

HasBadLine(net) == \E i \in DOMAIN net.body : net.body[i].kind = "bad"

\* The objects of the body's non-blank lines, in the order of the lines.
ObjectsOf(net) == SelectSeq(net.body, LAMBDA l : l.kind # "blank")

AllKeys(objs) == UNION {DOMAIN objs[i].obj : i \in DOMAIN objs}

\* The st.error calls of query's except clauses, among the page's messages.
Shown(m) == \E i \in DOMAIN errors : errors[i].msg = m

(***************************************************************************)
(* C1: query never raises.  Whatever the POST comes to (no connection, a    *)
(* timeout, any status, any body) the call returns a frame; when the POST   *)
(* failed, the status is a 4xx or 5xx, or a line of a parsed body is not    *)
(* JSON, the frame is empty and exactly one st.error was made.              *)
(***************************************************************************)
C1_QueryNeverRaises ==
    /\ pc # "crashed"
    /\ last.called =>
        /\ last.res.raised = "none"
        /\ (last.net.kind \in Unreachable \/ HttpError(last.net) \/ HasBadLine(last.net))
            => /\ last.res.df = EmptyFrame
               /\ Len(last.res.errors) = 1
               /\ Shown(last.res.errors[1].msg)

\* A body with a malformed line came back with status 200 and the call returned.
C1_Witness ==
    /\ last.called
    /\ last.net.kind = "response" /\ last.net.status = 200 /\ HasBadLine(last.net)
    /\ last.res.raised = "none" /\ last.res.df = EmptyFrame
    /\ last.res.errors # <<>>
    /\ pc \in {"stats", "check"}

(***************************************************************************)
(* C2 as stated: for a 2xx response whose N non-blank lines are all JSON    *)
(* objects, the frame has N rows in the order of the lines and the keys of  *)
(* row i are the keys of the object on line i.                              *)
(***************************************************************************)
C2_RowKeysAreLineKeys ==
    (last.called /\ Success(last.net) /\ ~HasBadLine(last.net)) =>
        LET objs == ObjectsOf(last.net)
            frame == last.res.df
        IN  /\ NRows(frame) = Len(objs)
            /\ \A i \in DOMAIN objs :
                /\ RowKeys(frame, i) = DOMAIN objs[i].obj
                /\ \A c \in DOMAIN objs[i].obj : Cell(frame, i, c) = objs[i].obj[c]

(***************************************************************************)
(* C2, amended: the frame has N rows in the order of the lines; row i holds *)
(* the values of the object on line i under that object's keys and NaN      *)
(* under the others; the keys of every row are the union of the keys of all *)
(* N objects, so the object's own keys when all objects have the same keys. *)
(***************************************************************************)
C2_RowsInOrderKeysUnion ==
    (last.called /\ Success(last.net) /\ ~HasBadLine(last.net)) =>
        LET objs == ObjectsOf(last.net)
            frame == last.res.df
        IN  /\ NRows(frame) = Len(objs)
            /\ last.res.errors = <<>>
            /\ \A i \in DOMAIN objs :
                /\ RowKeys(frame, i) = AllKeys(objs)
                /\ \A c \in DOMAIN objs[i].obj : Cell(frame, i, c) = objs[i].obj[c]
                /\ \A c \in RowKeys(frame, i) \ DOMAIN objs[i].obj :
                        Cell(frame, i, c) = NaN
                /\ (\A j \in DOMAIN objs : DOMAIN objs[j].obj = DOMAIN objs[i].obj)
                        => RowKeys(frame, i) = DOMAIN objs[i].obj

\* A 200 body of two objects with different keys was parsed into two rows.
C2_Witness ==
    /\ last.called /\ Success(last.net) /\ ~HasBadLine(last.net)
    /\ Len(last.net.body) = MaxLines
    /\ Len(ObjectsOf(last.net)) >= 2
    /\ NRows(last.res.df) = Len(ObjectsOf(last.net))
    /\ \E i, j \in DOMAIN last.res.df.data :
            DOMAIN last.res.df.data[i] # DOMAIN last.res.df.data[j]

(***************************************************************************)
(* C3: a 2xx response with a malformed line is rejected whole, wherever the *)
(* line stands: the frame is empty, whatever valid lines surround it, and   *)
(* the one st.error made is the parse diagnostic.                           *)
(***************************************************************************)
C3_MalformedLineRejectsAll ==
    (last.called /\ Success(last.net) /\ HasBadLine(last.net)) =>
        /\ NRows(last.res.df) = 0
        /\ last.res.df = EmptyFrame
        /\ last.res.errors = <<Diag(QueryError, "JSONDecodeError")>>
        /\ Shown(QueryError)

\* A malformed line after a valid row came back and the frame is empty.
C3_Witness ==
    /\ last.called /\ Success(last.net)
    /\ Len(last.net.body) >= 2
    /\ last.net.body[1].kind = "obj"
    /\ last.net.body[Len(last.net.body)].kind = "bad"
    /\ last.res.df = EmptyFrame

(***************************************************************************)
(* C4: every status outside 2xx, every connection failure and every timeout *)
(* is a transport failure: the frame is empty, the transport diagnostic is  *)
(* made, and the body is not parsed into rows.                              *)
(***************************************************************************)
C4_NonSuccessIsTransportFailure ==
    (last.called /\ ~Success(last.net)) =>
        /\ last.res.df = EmptyFrame
        /\ Len(last.res.errors) = 1
        /\ last.res.errors[1].msg = FailedToConnect

(***************************************************************************)
(* C5: a "cannot reach the endpoint" failure (refused, timed out) and an    *)
(* "endpoint returned an error" failure (HTTP status) never get the same    *)
(* kind of diagnostic: of two st.error messages of one run, one for each,   *)
(* the message texts before the exception differ.                           *)
(***************************************************************************)
C5_UnreachableAndHttpErrorDiffer ==
    \A i, j \in DOMAIN errors :
        (errors[i].exc \in Unreachable /\ errors[j].exc = "HTTPError")
            => errors[i].msg # errors[j].msg

\* The same of test_amp_connection, under SpecDemo: what it prints first when
\* the endpoint is not reached is never what it prints first for an HTTP error.
C5_ConnectionTestDiffers ==
    (demo.posts = <<"select_1">> /\ demo.exc \in Unreachable) =>
        \A n \in {x \in DemoOutcomes(test_query) : HttpError(x)} :
            Head(demo.out) # Head(test_amp_connection(n).out)

(***************************************************************************)
(* C6: a refused or timed-out POST yields the empty frame and the transport *)
(* diagnostic; a malformed line of a parsed body yields the parse           *)
(* diagnostic; the two texts differ, the transport diagnostic is never made *)
(* for a body that was parsed, nor the parse diagnostic for a POST that     *)
(* failed.                                                                  *)
(***************************************************************************)
C6_TransportAndParseDiagnosticsDiffer ==
    last.called =>
        LET msgs == {last.res.errors[i].msg : i \in DOMAIN last.res.errors}
        IN  /\ last.net.kind \in Unreachable =>
                /\ last.res.df = EmptyFrame
                /\ msgs = {FailedToConnect}
            /\ QueryError \in msgs =>
                /\ last.net.kind = "response"
                /\ HasBadLine(last.net)
                /\ FailedToConnect \notin msgs
            /\ FailedToConnect \in msgs =>
                /\ last.net.kind \in Unreachable \/ HttpError(last.net)
                /\ QueryError \notin msgs
            /\ (Success(last.net) /\ HasBadLine(last.net)) => msgs = {QueryError}

\* The connection was refused: empty frame, transport diagnostic on the page.
C6_Witness ==
    /\ last.called
    /\ last.net.kind = "ConnectionError"
    /\ last.res.df = EmptyFrame
    /\ last.res.errors = <<Diag(FailedToConnect, "ConnectionError")>>
    /\ Shown(FailedToConnect)

(***************************************************************************)
(* C7: a 2xx response with an empty body, or with blank lines only, yields  *)
(* the empty frame, no exception and no st.error; every failure makes an    *)
(* st.error, so the zero-row outcome is told apart from both failures.      *)
(***************************************************************************)
C7_ZeroRowsIsNotAnError ==
    last.called =>
        /\ (Success(last.net) /\ ObjectsOf(last.net) = <<>>) =>
                /\ last.res.df = EmptyFrame
                /\ last.res.raised = "none"
                /\ last.res.errors = <<>>
        /\ (last.net.kind \in Unreachable \/ HttpError(last.net)
                \/ (Success(last.net) /\ HasBadLine(last.net)))
                => last.res.errors # <<>>

\* A 200 body of blank lines only came back.
C7_Witness ==
    /\ last.called /\ Success(last.net)
    /\ Len(last.net.body) = MaxLines
    /\ ObjectsOf(last.net) = <<>>
    /\ last.res.df = EmptyFrame /\ last.res.errors = <<>>

(***************************************************************************)
(* C8: when the transfers query failed (transport or parse), the page never *)
(* shows the no-data message.                                               *)
(***************************************************************************)
C8_FailureNotShownAsNoData ==
    (pc = "done" /\ calls[1].exc # "none") => ~Shown(NoWhaleTransfers)

(***************************************************************************)
(* C9 as stated: the transfers query selects a row with a recipient exactly *)
(* when its raw value is at least T * 10^18 (T * 10^18 itself is selected,  *)
(* T * 10^18 - 1 is not), and every selected row displays at least T.       *)
(***************************************************************************)
C9_FilterOnRawValue ==
    Len(sent) >= 1 =>
        \A r \in {x \in ChainRows : x.to # NULL} :
            /\ Where(sent[1], r) <=> WeiGE(r.value, Wei(min_eth, 0))
            /\ Where(sent[1], r) => AmountGE(EthAmount(r.value), min_eth)

(***************************************************************************)
(* C9, amended: the comparison is made on the raw value converted to a      *)
(* double.  A row with a recipient is selected exactly when its raw value   *)
(* is at least T * 10^18 less half a spacing of the doubles there (T *      *)
(* 10^18 and T * 10^18 - 1 are selected, a value more than half a spacing   *)
(* below is not), and every selected row, so every row of the frame,        *)
(* displays at least T.                                                     *)
(***************************************************************************)
C9_FilterOnDoubleValue ==
    Len(sent) >= 1 =>
        /\ \A r \in {x \in ChainRows : x.to # NULL} :
            /\ Where(sent[1], r)
                <=> WeiGE(r.value, Wei(min_eth, 0 - (Ulp(min_eth) \div 2)))
            /\ r.value = Wei(min_eth, 0) => Where(sent[1], r)
            /\ Where(sent[1], r) => AmountGE(EthAmount(r.value), min_eth)
        /\ \A r \in {x \in ChainRows : x.to = NULL} : ~Where(sent[1], r)
        /\ \A i \in DOMAIN df.data :
            "eth_amount" \in DOMAIN df.data[i]
                => AmountGE(df.data[i].eth_amount, min_eth)

\* The frame holds the transfer of exactly T * 10^18 and the one of a wei less.
C9_Witness ==
    /\ pc = "stats"
    /\ Len(df.data) = 2
    /\ \A i \in DOMAIN df.data : "transaction_hash" \in DOMAIN df.data[i]
    /\ \E r \in ChainRows :
            r.value = Wei(min_eth, 0) /\ df.data[1].transaction_hash = r.tx_hash
    /\ \E r \in ChainRows :
            r.value = Wei(min_eth, 0 - 1) /\ df.data[2].transaction_hash = r.tx_hash

(***************************************************************************)
(* C10: the top-senders query of a refresh selects exactly the rows its     *)
(* recent-transfers query selects.                                          *)
(***************************************************************************)
C10_StatsUseTheSliderThreshold ==
    Len(sent) = 2 =>
        \A r \in ChainRows : Where(sent[2], r) <=> Where(sent[1], r)

\* C11: every refresh trigger (a run of the script starting at its top,
\* whether from the button, the auto-refresh or a changed parameter) is
\* eventually followed by the fetch step, where the queries are executed.
C11_RefreshReachesFetch ==
    (pc = "sidebar") ~> (pc = "transfers")

\* C12: within one run of the dashboard at most two queries are issued, one
\* after the other: the recent-transfers query first, the top-senders query
\* only once the first has returned (with or without an error), so that no
\* more than one request is ever awaiting its answer.
C12_OneRequestAtATime ==
    /\ Len(inflight) <= 1
    /\ Len(sent) <= 2
    /\ Len(sent) >= 1 => sent[1].template = "whale_transfers"
    /\ Len(sent) = 2 =>
        /\ sent[2].template = "whale_stats"
        /\ Len(calls) >= 1
        /\ calls[1].template = "whale_transfers"
    /\ inflight # <<>> => inflight[1] = sent[Len(sent)]

\* The top-senders query awaits its answer after the recent-transfers query
\* has failed.
C12_Witness ==
    /\ pc = "stats_wait"
    /\ Len(inflight) = 1
    /\ inflight[1].template = "whale_stats"
    /\ calls[1].exc # "none"

\* C13: every call of AmpClient.query sends exactly one POST, whatever the
\* outcome: the POSTs of a run are those of its finished calls plus the one
\* of the call in progress, in the same order, a failed call included; and a
\* run starts with no result kept from an earlier one, so every frame it
\* holds comes from a POST of its own.
C13_OnePostPerCall ==
    /\ Len(sent) = Len(calls) + Len(inflight)
    /\ \A i \in DOMAIN calls : sent[i].template = calls[i].template
    /\ last.called => last.sql = sent[Len(calls)]
    /\ pc \in {"sidebar", "sleep", "transfers"} =>
        /\ Len(sent) = 0
        /\ last = NoCall
        /\ df = EmptyFrame
        /\ df_stats = EmptyFrame
    /\ pc = "transfers_wait" => Len(sent) = 1 /\ Len(calls) = 0
    /\ pc = "stats" => Len(sent) = 1 /\ Len(calls) = 1
    /\ pc = "stats_wait" => Len(sent) = 2 /\ Len(calls) = 1
    /\ pc \in {"check", "done"} => Len(sent) = 2 /\ Len(calls) = 2

\* A run has ended in which both calls failed: two POSTs, no more.
C13_Witness ==
    /\ pc = "done"
    /\ Len(sent) = 2
    /\ calls[1].exc # "none"
    /\ calls[2].exc # "none"

\* C14: AmpClient.query is stateless: from its construction to the end of
\* the run the client keeps the endpoint it was configured with, and the
\* frame a call returns is the one computed from that call's SQL and that
\* call's response alone, whatever calls came before and however they ended.
C14_QueryIsStateless ==
    /\ pc \in {"sleep", "transfers", "transfers_wait", "stats", "stats_wait",
               "check", "done"} => client = <<AmpClient(amp_url)>>
    /\ pc = "stats" =>
        /\ last.sql = whale_transfers_sql(min_eth)
        /\ df = query(last.sql, last.net).df
    /\ pc \in {"check", "done"} =>
        /\ last.sql = whale_stats_sql
        /\ df_stats = query(last.sql, last.net).df

\* The top-senders call succeeded with rows after the recent-transfers call
\* had failed.
C14_Witness ==
    /\ pc = "check"
    /\ calls[1].exc # "none"
    /\ calls[2].exc = "none"
    /\ ~IsEmpty(df_stats)
    /\ client = <<AmpClient(amp_url)>>

DemoOrder == <<"select_1", "sample_data", "whale_check">>

Printed(m) == \E i \in DOMAIN demo.out : demo.out[i] = m

\* C15: the demo's checks are gated in order.  The POSTs of a run are a
\* prefix of (connection test, sample data, whale check); the sample-data
\* query is sent only after a connection test that got a response with no
\* error status; the whale-count query only after a sample-data response
\* that parsed to at least one row holding the columns shown; a run that
\* has ended sent 1, 2 or 3 POSTs; and the completion message is printed
\* only when all three were sent.
C15_DemoChecksAreGated ==
    /\ Len(demo.posts) <= 3
    /\ demo.posts = SubSeq(DemoOrder, 1, Len(demo.posts))
    /\ Len(demo.posts) >= 2 => Printed(Responsive)
    /\ Len(demo.posts) = 3 => Printed("Sample data")
    /\ demo.pc = "test" => Len(demo.posts) = 0
    /\ demo.pc = "sample" =>
        /\ Len(demo.posts) = 1
        /\ demo.net.kind = "response"
        /\ ~HttpError(demo.net)
    /\ demo.pc = "whale" =>
        /\ Len(demo.posts) = 2
        /\ demo.net.kind = "response"
        /\ ~HttpError(demo.net)
        /\ ~HasBadLine(demo.net)
        /\ Len(ObjectsOf(demo.net)) >= 1
        /\ SampleColumns \subseteq AllKeys(ObjectsOf(demo.net))
    /\ demo.pc = "returned" => Len(demo.posts) \in 1..2
    /\ demo.pc = "complete" => Len(demo.posts) = 3
    /\ Printed("Demo complete") <=> demo.pc = "complete"

\* A run went through all three steps and printed the completion message,
\* its whale check having failed.
C15_Witness ==
    /\ demo.pc = "complete"
    /\ demo.posts = DemoOrder
    /\ Printed("Demo complete")
    /\ demo.exc # "none"

====
